---- MODULE Spec2Model ----
(***************************************************************************)
(* Model of classifiers/xgb/xgb_train.py: the XGBoost training pipeline.   *)
(*                                                                         *)
(* Conventions.                                                            *)
(*  - A Python str is a sequence of tokens (each token a piece of text);   *)
(*    + on str is \o.  The token ".npy" is atomic, so endswith('.npy') is  *)
(*    "the last token is .npy".                                            *)
(*  - A Python float is an integer number of hundredths,                   *)
(*    an int is itself; a dict value carries its Python type in field t.   *)
(*  - A dict is a function from the key strings to values.                 *)
(***************************************************************************)
EXTENDS Integers, Sequences, FiniteSets, TLC

VARIABLES
    args,              \* argparse namespace (module-level global `args`)
    table,             \* number of rows of the HDF5 table behind data_file
    pc,                \* position of __main__
    log,               \* the pipeline steps executed so far, in order
    split,             \* row indices of (df_X_train, df_X_test) of load_data
    split2,            \* the same, of a second call of load_data
    test_size,         \* load_data's test_size argument, in percent
    entropy,           \* state of the process-wide (unseeded) numpy RNG
    hp,                \* module-level global `hp`: the hyperparameter dict
    hp0,               \* the dict as hp_default_config/get_hyp_config returned it
    branch,            \* index hp.choice('booster', ...) drew; -1 before
    num_boost_rounds,  \* __main__'s num_boost_rounds
    boost,             \* the state of xgb.train and of its early-stop callback
    results,           \* evalDict returned by train_hyp_config
    files,             \* the files written so far: [path, by, content]
    error              \* the step whose exception ended the run; "none" before

vars == <<args, table, pc, log, split, split2, test_size, entropy, hp, hp0,
          branch, num_boost_rounds, boost, results, files, error>>

(***************************************************************************)
(* Bounds of the model.                                                    *)
(***************************************************************************)
MaxRows == 4          \* tables have 1..MaxRows rows
MaxEntropy == 3       \* the unseeded RNG state ranges over 0..MaxEntropy
MaxScore == 1         \* validation AUC takes the values 0..MaxScore

(***************************************************************************)
(* Constants of the program.                                               *)
(***************************************************************************)
DefaultRounds == 512          \* num_boost_rounds = 512
EarlyStoppingRounds == 256    \* early_stopping_rounds = 256
DefaultTestSize == 5          \* test_size = 0.05, in percent

(***************************************************************************)
(* Python values.                                                          *)
(***************************************************************************)
PyFloat(x) == [t |-> "float", s |-> <<>>, n |-> x]
PyInt(x) == [t |-> "int", s |-> <<>>, n |-> x]
PyStr(x) == [t |-> "str", s |-> x, n |-> 0]
PyNone == [t |-> "NoneType", s |-> <<>>, n |-> 0]

\* the whole part and the hundredths of a (non-negative) float
Whole(x) == x \div 100
Frac(x) == x % 100

\* int(v) == v for a float v
IsWholeFloat(v) == v.t = "float" /\ Frac(v.n) = 0

\* int(v): truncation
IntOf(v) == PyInt(Whole(v.n))

\* bool(v) of `if v:` for None and int
Truthy(v) == v.t = "int" /\ v.n # 0

\* a dict that holds nothing yet (the variable is not bound)
NoDict == [unbound |-> PyNone]

\* {**a, **b}: b's entries override a's
MergeKeepLeft(a, b) == [k \in DOMAIN a \cup DOMAIN b |-> IF k \in DOMAIN a THEN a[k] ELSE b[k]]

Merge(a, b) == [k \in DOMAIN a \cup DOMAIN b |-> IF k \in DOMAIN b THEN b[k] ELSE a[k]]

\* d[k] = v on a dict
Put(d, k, v) == [x \in DOMAIN d \cup {k} |-> IF x = k THEN v ELSE d[x]]

(***************************************************************************)
(* hp_default_config(deep)                                                 *)
(***************************************************************************)
hp_default_config(deep) ==
    IF deep
    THEN [eta |-> PyFloat(10), seed |-> PyInt(0), subsample |-> PyFloat(75),
          colsample_bytree |-> PyFloat(85), gamma |-> PyFloat(250),
          objective |-> PyStr(<<"binary:logistic">>), max_depth |-> PyInt(8),
          min_child_weight |-> PyFloat(40), silent |-> PyInt(1)]
    ELSE [eta |-> PyFloat(10), seed |-> PyInt(0), subsample |-> PyFloat(80),
          colsample_bytree |-> PyFloat(90), gamma |-> PyFloat(160),
          objective |-> PyStr(<<"binary:logistic">>), max_depth |-> PyInt(6),
          min_child_weight |-> PyInt(1), silent |-> PyInt(1)]

(***************************************************************************)
(* The hyperopt search space of xgb_hyp().  An hp expression is the set of *)
(* values a draw of it can give; `grid` is the set of uniform draws (in    *)
(* hundredths) the model considers.                                        *)
(***************************************************************************)
\* hp.uniform(label, low, high): a float of [low, high]; numpy documents that
\* rounding can return high itself
Uniform(grid, low, high) == {PyFloat(x) : x \in {g \in grid : low <= g /\ g <= high}}

\* np.round(x / q) * q for q = 1: round half to even, on hundredths
RoundHalfEven(x) ==
    LET f == Whole(x)
        r == Frac(x)
    IN  IF r < 50 THEN f * 100
        ELSE IF r > 50 THEN (f + 1) * 100
        ELSE IF f % 2 = 0 THEN f * 100 ELSE (f + 1) * 100

\* hp.quniform(label, low, high, 1)
QUniform(grid, low, high) ==
    {PyFloat(RoundHalfEven(x)) : x \in {g \in grid : low <= g /\ g <= high}}

\* hp.choice(label, options) over constant options
Choice(options) == options

Const(v) == {v}

gbtree_hyp(grid) ==
    [booster |-> Const(PyStr(<<"gbtree">>)),
     eta |-> Uniform(grid, 1, 17),
     gamma |-> Uniform(grid, 5, 250),
     min_child_weight |-> Uniform(grid, 0, 200),
     max_depth |-> QUniform(grid, 300, 900),
     subsample |-> Uniform(grid, 70, 100),
     colsample_bytree |-> Uniform(grid, 70, 100),
     objective |-> Const(PyStr(<<"binary:logistic">>)),
     silent |-> Const(PyInt(1))]

dart_hyp(grid) ==
    [booster |-> Const(PyStr(<<"dart">>)),
     sample_type |-> Choice({PyStr(<<"uniform">>), PyStr(<<"weighted">>)}),
     normalize_type |-> Choice({PyStr(<<"tree">>), PyStr(<<"forest">>)}),
     rate_drop |-> Uniform(grid, 0, 30),
     skip_drop |-> Uniform(grid, 0, 25)]

\* the two options of hp.choice('booster', [gbtree_hyp, {**gbtree_hyp, **dart_hyp}])
DartMerged(grid) == Merge(gbtree_hyp(grid), dart_hyp(grid))

Space(grid) == <<gbtree_hyp(grid), DartMerged(grid)>>

\* hyperopt.pyll.stochastic.sample of one option: an independent draw per key
RECURSIVE Samples(_)
Samples(option) ==
    LET k == CHOOSE x \in DOMAIN option : TRUE
        rest == [x \in DOMAIN option \ {k} |-> option[x]]
    IN  IF DOMAIN option = {k}
        THEN {[x \in {k} |-> v] : v \in option[k]}
        ELSE {Put(d, k, v) : d \in Samples(rest), v \in option[k]}

(***************************************************************************)
(* get_hyp_config(): the post-processing of the sample.                    *)
(***************************************************************************)
\* if type(v) == float and int(v) == v: params[k] = int(v)
CoerceIntOnly(v) == IF v.t = "int" THEN PyInt(v.n) ELSE v

Coerce(v) == IF IsWholeFloat(v) THEN IntOf(v) ELSE v

CoerceAll(params) == [k \in DOMAIN params |-> Coerce(params[k])]

\* `v is not 'default'`: an identity test against a literal.  For a str equal
\* to 'default' the outcome depends on interning (`same_object`); any other
\* value is a different object.
IsNotDefault(v, same_object) ==
    IF v.t = "str" /\ v.s = <<"default">> THEN ~same_object ELSE TRUE

DropDefault(params, same_object) ==
    LET keep == {k \in DOMAIN params : IsNotDefault(params[k], same_object)}
    IN  [k \in keep |-> params[k]]

get_hyp_config(sample, same_object) == DropDefault(CoerceAll(sample), same_object)

(***************************************************************************)
(* Strings and paths.                                                      *)
(***************************************************************************)
EndsWith(str, token) == Len(str) > 0 /\ str[Len(str)] = token

StartsWith(str, token) == Len(str) > 0 /\ str[1] = token

\* str(n) for an int n: its decimal digits
RECURSIVE Digits(_)
Digits(n) ==
    LET d == <<"0", "1", "2", "3", "4", "5", "6", "7", "8", "9">>[(n % 10) + 1]
    IN  IF n < 10 THEN <<d>> ELSE Digits(n \div 10) \o <<d>>

Str(n) == IF n < 0 THEN <<"-">> \o Digits(-n) ELSE Digits(n)

\* int(s) / float(s) of a digit string
RECURSIVE ParseNat(_)
ParseNat(str) ==
    LET d == CHOOSE v \in 0..9 : Digits(v) = <<str[Len(str)]>>
    IN  IF Len(str) = 1 THEN d ELSE ParseNat(SubSeq(str, 1, Len(str) - 1)) * 10 + d

Parse(str) == IF StartsWith(str, "-") THEN 0 - ParseNat(Tail(str)) ELSE ParseNat(str)

\* os.path.join(a, *p) of posixpath
RECURSIVE PathJoin(_, _)
PathJoin(path, p) ==
    IF p = <<>> THEN path
    ELSE LET b == Head(p)
         IN  IF StartsWith(b, "/") THEN PathJoin(b, Tail(p))
             ELSE IF path = <<>> \/ EndsWith(path, "/") THEN PathJoin(path \o b, Tail(p))
             ELSE PathJoin(path \o <<"/">> \o b, Tail(p))

\* template.format(*a): each '{}' takes the next argument; arguments left
\* over are ignored
RECURSIVE Format(_, _)
Format(template, a) ==
    IF template = <<>> THEN <<>>
    ELSE IF Head(template) = "{}"
         THEN Head(a) \o Format(Tail(template), Tail(a))
         ELSE <<Head(template)>> \o Format(Tail(template), a)

\* numpy.save(file, arr): '.npy' is appended to a file name that lacks it
NpSaveName(file) == IF EndsWith(file, ".npy") THEN file ELSE file \o <<".npy">>

\* s.split(sep) on tokens
RECURSIVE StrSplit(_, _)
StrSplit(str, sep) ==
    IF \A i \in 1..Len(str) : str[i] # sep THEN <<str>>
    ELSE LET i == CHOOSE j \in 1..Len(str) :
                      str[j] = sep /\ \A k \in 1..(j - 1) : str[k] # sep
         IN  <<SubSeq(str, 1, i - 1)>> \o StrSplit(SubSeq(str, i + 1, Len(str)), sep)

\* sep.join(parts)
RECURSIVE StrJoin(_, _)
StrJoin(sep, parts) ==
    IF Len(parts) = 1 THEN Head(parts)
    ELSE Head(parts) \o <<sep>> \o StrJoin(sep, Tail(parts))

(***************************************************************************)
(* load_data: sklearn's train_test_split with random_state = 24601.        *)
(* numpy's MT19937 is abstracted by a small generator: what the model      *)
(* keeps is that the permutation is a function of the generator's state.   *)
(***************************************************************************)
random_state_None == PyNone

random_state == PyInt(24601)

\* sklearn.utils.check_random_state(seed): None is the process-wide generator
CheckRandomState(seed, global) == IF seed = PyNone THEN global ELSE seed.n

RngNext(s) == (s * 75 + 74) % 65537

\* RandomState.permutation(n): Fisher-Yates on arange(n), from the top
RECURSIVE Shuffle(_, _, _)
Shuffle(x, i, s) ==
    IF i <= 1 THEN x
    ELSE LET s2 == RngNext(s)
             j == (s2 % i) + 1
             y == [x EXCEPT ![i] = x[j], ![j] = x[i]]
         IN  Shuffle(y, i - 1, s2)

Permutation(s, n) == Shuffle([i \in 1..n |-> i], n, s)

\* ceil(pct * n / 100)
CeilPct(pct, n) == (pct * n + 99) \div 100

\* train_test_split(X, y, test_size, random_state): the row indices of
\* (train, test)
TrainTestSplit(n, pct, seed, global) ==
    LET n_test == CeilPct(pct, n)
        perm == Permutation(CheckRandomState(seed, global), n)
    IN  [train |-> SubSeq(perm, n_test + 1, n), test |-> SubSeq(perm, 1, n_test)]

\* the three files load_data writes, in the order it writes them
LoadDataPaths(mode, channel) ==
    <<PathJoin(<<"dmatrices">>, <<channel, <<"dTrain">> \o mode \o channel \o <<".buffer">>>>),
      PathJoin(<<"dmatrices">>, <<channel, <<"dTest">> \o mode \o channel \o <<".buffer">>>>),
      PathJoin(<<"test">>, <<channel, <<"dTest">> \o mode \o channel \o <<".h5">>>>)>>

(***************************************************************************)
(* xgb.train(params = pList, dtrain, evals = [(dTrain,'train'),            *)
(* (dTest,'eval')], num_boost_round = nTrees, early_stopping_rounds = 256) *)
(* as xgboost documents it: every round evaluates each metric on each      *)
(* watched set, in the order of evals and of the eval_metric entries of    *)
(* params; the last entry of the line is the monitored score.              *)
(***************************************************************************)
\* hyp_params['eval_metric'] = 'error@0.5'
AddEvalMetricAndSeed(hyp_params) ==
    Put(Put(hyp_params, "eval_metric", PyStr(<<"error@0.5">>)), "seed", PyInt(0))

AddEvalMetric(hyp_params) == Put(hyp_params, "eval_metric", PyStr(<<"error@0.5">>))

\* the eval_metric entries of pList = list(hyp_params.items()) + [('eval_metric', 'auc')]
EvalMetrics(hyp_params) ==
    (IF "eval_metric" \in DOMAIN hyp_params THEN <<hyp_params["eval_metric"].s>> ELSE <<>>)
        \o <<<<"auc">>>>

evalList == <<"train", "eval">>

\* the names of a round's evaluation_result_list: 'train-error@0.5', 'train-auc',
\* 'eval-error@0.5', 'eval-auc'
EvalNames(metrics) ==
    [k \in 1..(Len(evalList) * Len(metrics)) |->
        <<evalList[((k - 1) \div Len(metrics)) + 1], "-">> \o metrics[((k - 1) % Len(metrics)) + 1]]

\* the values a round can report for the names, in hundredths.  The last one
\* is the monitored score and the one before it is the entry evalDict keeps;
\* the entries before them are text that nothing reads, and stay at one value
RoundValues(names) ==
    {v \in [1..Len(names) -> 0..MaxScore] :
        \A k \in 1..(Len(names) - 1) : k # Len(names) - 1 => v[k] = 0}

\* '%s:%f' % (name, value)
FmtMetric(name, value) == name \o <<":">> \o Str(value)

\* '[%d]\t%s' % (i, '\t'.join(fmt_metric(x) for x in res))
BestMsg(i, names, values) ==
    <<"[">> \o Str(i) \o <<"]", "\t">>
        \o StrJoin("\t", [k \in 1..Len(names) |-> FmtMetric(names[k], values[k])])

\* the booster and the early-stop callback before the first round: no
\* attribute is set, best_score is -inf, best_iteration is 0
NewBooster(n) ==
    [N |-> n, rounds |-> 0, stale |-> 0, stopped |-> FALSE,
     best_iteration |-> 0, best_score |-> 0 - 1,
     attr_score |-> <<>>, attr_iteration |-> <<>>, attr_msg |-> <<>>]

\* the callback's stopping test at iteration i
StopNowLate(i, best_iteration) == i - best_iteration > EarlyStoppingRounds

StopNow(i, best_iteration) == i - best_iteration >= EarlyStoppingRounds

\* one boosting round (iteration b.rounds) and the callback after it
BoostRound(b, names, values) ==
    LET i == b.rounds
        score == values[Len(values)]
    IN  IF score > b.best_score
        THEN [b EXCEPT !.rounds = i + 1, !.stale = 0,
                       !.best_score = score, !.best_iteration = i,
                       !.attr_score = Str(score), !.attr_iteration = Str(i),
                       !.attr_msg = BestMsg(i, names, values)]
        ELSE [b EXCEPT !.rounds = i + 1, !.stale = b.stale + 1,
                       !.stopped = StopNow(i, b.best_iteration)]

\* the loop `for i in range(num_boost_round)` goes on
Boosting(b) == b.rounds < b.N /\ ~b.stopped

\* the iteration at which training ends when round `best` is the last one to
\* improve the score: the first one the callback stops at, or the last one
LastIteration(n, best) ==
    IF best + EarlyStoppingRounds <= n - 1 THEN best + EarlyStoppingRounds ELSE n - 1

\* xgb.train as a whole: the booster it returns when round `best` reported
\* `values` and was the last round to improve the score
XgbTrain(n, names, best, values) ==
    LET last == LastIteration(n, best)
    IN  [N |-> n, rounds |-> last + 1, stale |-> last - best,
         stopped |-> last > best /\ StopNow(last, best),
         best_iteration |-> best, best_score |-> values[Len(values)],
         attr_score |-> Str(values[Len(values)]), attr_iteration |-> Str(best),
         attr_msg |-> BestMsg(best, names, values)]

\* the rounds that can be the best one, as far as the model follows them: the
\* first, the last, and the two around the latest round from which 256 stale
\* rounds still fit
BestRounds(n) ==
    {b \in {0, n - EarlyStoppingRounds - 2, n - EarlyStoppingRounds - 1,
            n - EarlyStoppingRounds, n - 1} : 0 <= b /\ b < n}

\* evalDict of train_hyp_config; bst.attr(...) of an unset attribute is None
HasAttrs(b) == b.attr_score # <<>>

LastOne(seq) == seq[Len(seq)]

LastButOne(seq) == seq[Len(seq) - 1]

EvalDict(b) ==
    [k \in {"auc", "error@0.5", "best_iteration"} |->
        IF k = "auc" THEN PyFloat(Parse(b.attr_score))
        ELSE IF k = "error@0.5" THEN PyStr(LastButOne(StrSplit(b.attr_msg, "\t")))
        ELSE PyInt(Parse(b.attr_iteration))]

\* model_output of train_hyp_config
ModelPath(channel, mode, nTrees) ==
    PathJoin(<<"models">>, <<channel, mode \o Str(nTrees) \o <<".model">>>>)

(***************************************************************************)
(* The files of save_results and diagnostics.                              *)
(***************************************************************************)
\* output of save_results
ResultsPath(channel, mode, timestamp) ==
    PathJoin(<<"models">>, <<channel, mode \o timestamp \o <<".json">>>>)

\* the files diagnostics writes, in the order it writes them: plot_ROC_curve,
\* plot_importances, np.save
DiagnosticsPaths(channel, mode) ==
    <<PathJoin(<<"graphs">>, <<channel \o mode \o <<"ROC.pdf">>>>),
      PathJoin(<<"graphs">>, <<channel \o mode \o <<"xgb_importances.pdf">>>>),
      NpSaveName(PathJoin(<<"test">>,
          <<channel, Format(<<"yPred_", "{}", "_", "{}">>, <<mode, channel, <<".npy">>>>)>>))>>

\* meta of plot_ROC_curve: what diagnostics reads from the global hp
RocMeta(h) == [k \in {"eta", "max_depth"} |-> h[k]]

File(path, by, content) == [path |-> path, by |-> by, content |-> content]

\* the first k files of `paths`, written by step `by`
Written(paths, k, by) == {File(paths[j], by, NoDict) : j \in 1..k}

(***************************************************************************)
(* __main__                                                                *)
(***************************************************************************)
\* an exception is not caught: the process ends
OnErrorContinue(next) == next

OnError(next) == "failed"

\* `if args.diagnostics:` after save_results
AfterSaveAlways(a) == "diag"

AfterSave(a) == IF a.diagnostics THEN "diag" ELSE "done"

\* the command lines the model considers
Channels == {<<"kstar0">>, <<"rho0", ".npy">>}
Modes == {<<"uds">>, <<"charm">>}
RoundsArgs == {PyNone, PyInt(0), PyInt(0 - 1), PyInt(3), PyInt(300)}
Timestamps == {<<"Nov_04_06:09">>}

Args == [channel : Channels, mode : Modes, num_boost_rounds : RoundsArgs,
         randomhp : BOOLEAN, deeptrees : BOOLEAN, diagnostics : BOOLEAN]

\* the uniform draws followed in a whole run, and in get_hyp_config alone
CoarseGrid == {10, 100, 300}
FineGrid == {0, 1, 17, 85, 100, 150, 250, 300, 849, 850, 900}

NoSplit == [train |-> <<>>, test |-> <<>>]

InitRun(a, n, pct, e) ==
    /\ args = a
    /\ table = n
    /\ test_size = pct
    /\ entropy = e
    /\ log = <<>>
    /\ split = NoSplit
    /\ split2 = NoSplit
    /\ hp = NoDict
    /\ hp0 = NoDict
    /\ branch = 0
    /\ num_boost_rounds = 0
    /\ boost = NewBooster(0)
    /\ results = NoDict
    /\ files = {}
    /\ error = "none"

Init ==
    /\ pc = "load"
    /\ \E a \in Args, n \in {1, MaxRows} : InitRun(a, n, DefaultTestSize, 0)

\* dataDMatrix, df_y_test = load_data(args.data_file, args.mode, args.channel)
LoadData ==
    /\ pc = "load"
    /\ split' = TrainTestSplit(table, test_size, random_state, entropy)
    /\ files' = files \cup Written(LoadDataPaths(args.mode, args.channel), 3, "load_data")
    /\ log' = Append(log, "load_data")
    /\ pc' = "hyp"
    /\ UNCHANGED <<args, table, split2, test_size, entropy, hp, hp0, branch,
                   num_boost_rounds, boost, results, error>>

\* load_data raises: the table is missing or malformed (before any file is
\* written), or a directory is missing (at one of the three writes)
LoadDataFails ==
    /\ pc = "load"
    /\ \E k \in 0..2 :
          files' = files \cup Written(LoadDataPaths(args.mode, args.channel), k, "load_data")
    /\ log' = Append(log, "load_data")
    /\ error' = "load_data"
    /\ pc' = OnError("hyp")
    /\ UNCHANGED <<args, table, split, split2, test_size, entropy, hp, hp0, branch,
                   num_boost_rounds, boost, results>>

\* hp = get_hyp_config()
GetHypConfig(grid) ==
    /\ pc = "hyp"
    /\ args.randomhp
    /\ \E c \in 1..2 : \E sample \in Samples(Space(grid)[c]) : \E same_object \in BOOLEAN :
          /\ hp' = get_hyp_config(sample, same_object)
          /\ branch' = c
    /\ hp0' = hp'
    /\ log' = Append(log, "get_hyp_config")
    /\ pc' = "rounds"
    /\ UNCHANGED <<args, table, split, split2, test_size, entropy,
                   num_boost_rounds, boost, results, files, error>>

\* hp = hp_default_config(args.deeptrees)
HpDefaultConfig ==
    /\ pc = "hyp"
    /\ ~args.randomhp
    /\ hp' = hp_default_config(args.deeptrees)
    /\ hp0' = hp'
    /\ log' = Append(log, "hp_default_config")
    /\ pc' = "rounds"
    /\ UNCHANGED <<args, table, split, split2, test_size, entropy, branch,
                   num_boost_rounds, boost, results, files, error>>

\* num_boost_rounds = 512; if args.num_boost_rounds: num_boost_rounds = args.num_boost_rounds
SelectRounds ==
    /\ pc = "rounds"
    /\ num_boost_rounds' = IF Truthy(args.num_boost_rounds)
                           THEN args.num_boost_rounds.n ELSE DefaultRounds
    /\ pc' = "train"
    /\ UNCHANGED <<args, table, log, split, split2, test_size, entropy, hp, hp0, branch,
                   boost, results, files, error>>

\* train_hyp_config after xgb.train returned bst: evalDict, save_model, return
TrainReturns(bst) ==
    /\ HasAttrs(bst)
    /\ boost' = bst
    /\ results' = EvalDict(bst)
    /\ files' = files \cup
          {File(ModelPath(args.channel, args.mode, bst.N), "train_hyp_config", NoDict)}
    /\ pc' = "save"
    /\ UNCHANGED error

\* train_hyp_config when bst has no best_score attribute (no round ran):
\* float(None) raises
TrainRaises(bst) ==
    /\ ~HasAttrs(bst)
    /\ boost' = bst
    /\ error' = "train_hyp_config"
    /\ pc' = OnError("save")
    /\ UNCHANGED <<results, files>>

\* bst, results = train_hyp_config(dataDMatrix, hyp_params = hp,
\*                                 num_boost_rounds = num_boost_rounds)
TrainHypConfig ==
    /\ pc = "train"
    /\ hp' = AddEvalMetric(hp)
    /\ log' = Append(log, "train_hyp_config")
    /\ LET names == EvalNames(EvalMetrics(hp'))
       IN  \/ \E best \in BestRounds(num_boost_rounds) : \E values \in RoundValues(names) :
                 TrainReturns(XgbTrain(num_boost_rounds, names, best, values))
           \/ /\ num_boost_rounds <= 0
              /\ TrainRaises(NewBooster(num_boost_rounds))
    /\ UNCHANGED <<args, table, split, split2, test_size, entropy, hp0, branch,
                   num_boost_rounds>>

\* xgb.train raises inside train_hyp_config
XgbTrainFails ==
    /\ pc = "train"
    /\ hp' = AddEvalMetric(hp)
    /\ log' = Append(log, "train_hyp_config")
    /\ error' = "xgb.train"
    /\ pc' = OnError("save")
    /\ UNCHANGED <<args, table, split, split2, test_size, entropy, hp0, branch,
                   num_boost_rounds, boost, results, files>>

\* save_results(results)
SaveResults ==
    /\ pc = "save"
    /\ \E timestamp \in Timestamps :
          files' = files \cup
              {File(ResultsPath(args.channel, args.mode, timestamp), "save_results", results)}
    /\ log' = Append(log, "save_results")
    /\ pc' = AfterSave(args)
    /\ UNCHANGED <<args, table, split, split2, test_size, entropy, hp, hp0, branch,
                   num_boost_rounds, boost, results, error>>

\* open(output, 'w') or json.dump raises
SaveResultsFails ==
    /\ pc = "save"
    /\ log' = Append(log, "save_results")
    /\ error' = "save_results"
    /\ pc' = OnError(AfterSave(args))
    /\ UNCHANGED <<args, table, split, split2, test_size, entropy, hp, hp0, branch,
                   num_boost_rounds, boost, results, files>>

\* diagnostics(dataDMatrix, df_y_test, bst)
Diagnostics ==
    /\ pc = "diag"
    /\ LET paths == DiagnosticsPaths(args.channel, args.mode)
       IN  files' = files \cup {File(paths[1], "diagnostics", RocMeta(hp))}
                          \cup {File(paths[j], "diagnostics", NoDict) : j \in 2..3}
    /\ log' = Append(log, "diagnostics")
    /\ pc' = "done"
    /\ UNCHANGED <<args, table, split, split2, test_size, entropy, hp, hp0, branch,
                   num_boost_rounds, boost, results, error>>

\* diagnostics raises: at predict (no file written), or at a later write
DiagnosticsFails ==
    /\ pc = "diag"
    /\ \E k \in 0..2 :
          LET paths == DiagnosticsPaths(args.channel, args.mode)
          IN  files' = files
                  \cup {File(paths[j], "diagnostics", RocMeta(hp)) : j \in 1..(IF k > 0 THEN 1 ELSE 0)}
                  \cup {File(paths[j], "diagnostics", NoDict) : j \in 2..k}
    /\ log' = Append(log, "diagnostics")
    /\ error' = "diagnostics"
    /\ pc' = OnError("done")
    /\ UNCHANGED <<args, table, split, split2, test_size, entropy, hp, hp0, branch,
                   num_boost_rounds, boost, results>>

Next ==
    \/ LoadData
    \/ LoadDataFails
    \/ GetHypConfig(CoarseGrid)
    \/ HpDefaultConfig
    \/ SelectRounds
    \/ TrainHypConfig
    \/ XgbTrainFails
    \/ SaveResults
    \/ SaveResultsFails
    \/ Diagnostics
    \/ DiagnosticsFails

Spec == Init /\ [][Next]_vars

(***************************************************************************)
(* load_data alone, called twice on the same table (the second call in     *)
(* another process, whose unseeded generator is in another state).         *)
(***************************************************************************)
TestSizes == {DefaultTestSize, 25, 50}

PlainArgs == {a \in Args : /\ ~a.randomhp /\ ~a.deeptrees /\ ~a.diagnostics
                           /\ a.num_boost_rounds = PyNone}

InitSplit ==
    /\ pc = "load"
    /\ \E a \in PlainArgs, n \in 1..MaxRows, pct \in TestSizes, e \in 0..MaxEntropy :
          InitRun(a, n, pct, e)

LoadDataAgain ==
    /\ pc = "hyp"
    /\ \E e \in 0..MaxEntropy :
          /\ entropy' = e
          /\ split2' = TrainTestSplit(table, test_size, random_state, e)
    /\ files' = files \cup Written(LoadDataPaths(args.mode, args.channel), 3, "load_data")
    /\ pc' = "loaded twice"
    /\ UNCHANGED <<args, table, log, split, test_size, hp, hp0, branch,
                   num_boost_rounds, boost, results, error>>

NextSplit == LoadData \/ LoadDataFails \/ LoadDataAgain

SpecSplit == InitSplit /\ [][NextSplit]_vars

(***************************************************************************)
(* get_hyp_config alone, on the fine grid of draws.                        *)
(***************************************************************************)
InitHyp ==
    /\ pc = "hyp"
    /\ \E a \in {x \in Args : /\ x.randomhp /\ x.num_boost_rounds = PyNone
                                /\ x.mode = <<"uds">> /\ ~x.diagnostics} :
          InitRun(a, MaxRows, DefaultTestSize, 0)

NextHyp == GetHypConfig(FineGrid)

SpecHyp == InitHyp /\ [][NextHyp]_vars

(***************************************************************************)
(* train_hyp_config with xgb.train followed round by round.                *)
(***************************************************************************)
TrainRounds == {0 - 1, 0, 1, 2, EarlyStoppingRounds, EarlyStoppingRounds + 1,
                EarlyStoppingRounds + 3}

InitTrain ==
    /\ pc = "boost"
    /\ \E a \in {x \in PlainArgs : x.mode = <<"uds">>}, n \in TrainRounds :
          /\ args = a
          /\ num_boost_rounds = n
          /\ boost = NewBooster(n)
          /\ files = Written(LoadDataPaths(a.mode, a.channel), 3, "load_data")
    /\ table = MaxRows
    /\ test_size = DefaultTestSize
    /\ entropy = 0
    /\ split = TrainTestSplit(table, test_size, random_state, entropy)
    /\ split2 = NoSplit
    /\ hp0 = hp_default_config(FALSE)
    /\ hp = AddEvalMetric(hp0)
    /\ branch = 0
    /\ log = <<"load_data", "hp_default_config", "train_hyp_config">>
    /\ results = NoDict
    /\ error = "none"

\* one iteration of xgb.train's loop
Round ==
    /\ pc = "boost"
    /\ Boosting(boost)
    /\ \E values \in RoundValues(EvalNames(EvalMetrics(hp))) :
          boost' = BoostRound(boost, EvalNames(EvalMetrics(hp)), values)
    /\ UNCHANGED <<args, table, pc, log, split, split2, test_size, entropy, hp, hp0,
                   branch, num_boost_rounds, results, files, error>>

\* xgb.train returns bst
XgbTrainReturns ==
    /\ pc = "boost"
    /\ ~Boosting(boost)
    /\ \/ TrainReturns(boost)
       \/ TrainRaises(boost)
    /\ UNCHANGED <<args, table, log, split, split2, test_size, entropy, hp, hp0,
                   branch, num_boost_rounds>>

NextTrain == Round \/ XgbTrainReturns

SpecTrain == InitTrain /\ [][NextTrain]_vars

(***************************************************************************)
(* Properties.                                                             *)
(***************************************************************************)
Range(seq) == {seq[i] : i \in 1..Len(seq)}

IsPrefix(a, b) == Len(a) <= Len(b) /\ SubSeq(b, 1, Len(a)) = a

NoRepeat(seq) == \A i, j \in 1..Len(seq) : seq[i] = seq[j] => i = j

By(step) == {f \in files : f.by = step}

\* C1: for every integer n passed with -n the pipeline calls train_hyp_config
\* with num_boost_rounds = n, and with 512 when -n is not given.
C1_RoundsOverride ==
    "train_hyp_config" \in Range(log) =>
        num_boost_rounds = IF args.num_boost_rounds.t = "int"
                           THEN args.num_boost_rounds.n ELSE DefaultRounds

\* the steps of a run that does not fail, in order
Pipeline(a) ==
    <<"load_data", IF a.randomhp THEN "get_hyp_config" ELSE "hp_default_config",
      "train_hyp_config", "save_results">>
        \o (IF a.diagnostics THEN <<"diagnostics">> ELSE <<>>)

\* C2: the steps run in the order load_data, hyperparameter selection
\* (get_hyp_config iff -r), train_hyp_config, save_results, diagnostics: what has
\* run so far is always a prefix of that sequence, a finished run has run each
\* of the first four exactly once, and diagnostics runs at most once, after
\* save_results, and only when --diagnostics is set.
C2_StepOrder ==
    /\ IsPrefix(log, Pipeline(args))
    /\ pc = "done" => log = Pipeline(args)
    /\ "diagnostics" \in Range(log) => args.diagnostics /\ "save_results" \in Range(log)

C2_Witness ==
    /\ pc = "done"
    /\ args.randomhp
    /\ args.diagnostics
    /\ Len(log) = 5

CommonKeys == {"booster", "eta", "gamma", "min_child_weight", "max_depth", "subsample",
               "colsample_bytree", "objective", "silent"}

DartKeys == {"sample_type", "normalize_type", "rate_drop", "skip_drop"}

\* C3: a mapping returned by get_hyp_config holds the nine common keys, and it
\* holds the four dropout keys iff the dropout branch was drawn, which is iff
\* booster = 'dart'; on the tree branch booster = 'gbtree' and no dropout key
\* is present.
C3_SampledKeys ==
    pc = "rounds" =>
        /\ CommonKeys \subseteq DOMAIN hp
        /\ \A k \in DartKeys : k \in DOMAIN hp <=> branch = 2
        /\ hp["booster"] = PyStr(<<"dart">>) <=> branch = 2
        /\ branch = 1 => hp["booster"] = PyStr(<<"gbtree">>)
        /\ DOMAIN hp \subseteq CommonKeys \cup DartKeys

C3_Witness ==
    /\ pc = "rounds"
    /\ branch = 2
    /\ DartKeys \subseteq DOMAIN hp
    /\ hp["booster"] = PyStr(<<"dart">>)

\* C4: no value of a mapping returned by get_hyp_config is a whole-number
\* float (max_depth, always whole, is an int), and none is the string
\* "default".
C4_NoWholeFloat ==
    pc = "rounds" =>
        /\ \A k \in DOMAIN hp :
              /\ hp[k].t = "float" => hp[k].n % 100 # 0
              /\ ~(hp[k].t = "str" /\ hp[k].s = <<"default">>)
        /\ hp["max_depth"].t = "int"
        /\ hp["max_depth"].n \in 3..9

C4_Witness ==
    /\ pc = "rounds"
    /\ branch = 2
    /\ hp["max_depth"] = PyInt(8)
    /\ hp["min_child_weight"] = PyInt(1)
    /\ hp["subsample"] = PyInt(1)
    /\ hp["rate_drop"] = PyInt(0)
    /\ hp["eta"].t = "float"

\* C5 as stated: in a run that has not failed, the mapping returned by
\* hp_default_config or get_hyp_config has the same keys and values ever after.
C5_NeverMutated == (hp0 # NoDict /\ error = "none") => hp = hp0

\* C5, amended: the mapping is built once and passed to train_hyp_config once;
\* train_hyp_config adds the key eval_metric = 'error@0.5' to it and changes
\* nothing else: every key it was built with keeps its value, before and
\* after training, and diagnostics reads eta and max_depth as they were built.
C5_OnlyEvalMetricAdded ==
    hp0 # NoDict =>
        /\ \A k \in DOMAIN hp0 : k \in DOMAIN hp /\ hp[k] = hp0[k]
        /\ DOMAIN hp \ DOMAIN hp0 \subseteq {"eval_metric"}
        /\ "eval_metric" \in DOMAIN hp <=> "train_hyp_config" \in Range(log)
        /\ "eval_metric" \in DOMAIN hp => hp["eval_metric"] = PyStr(<<"error@0.5">>)
        /\ NoRepeat(log)
        /\ \A f \in By("diagnostics") :
              f.content # NoDict =>
                  /\ f.content["eta"] = hp0["eta"]
                  /\ f.content["max_depth"] = hp0["max_depth"]

C5_Witness ==
    /\ pc = "done"
    /\ args.randomhp
    /\ "eval_metric" \in DOMAIN hp
    /\ \E f \in By("diagnostics") : f.content # NoDict

\* train_hyp_config has returned
Trained == "train_hyp_config" \in Range(log) /\ error \notin {"xgb.train", "train_hyp_config"}

\* C6: once training has completed the run has written exactly one model
\* file, models/<channel>/<mode><rounds>.model with <rounds> the number of
\* rounds asked for, and its evaluation record has exactly the keys auc,
\* error@0.5 and best_iteration: auc is the model's best score, best_iteration
\* its best iteration, error@0.5 the last but one tab-separated field of the
\* best message, which is the eval-error@0.5 entry; save_results writes that
\* record.
C6_ModelAndRecord ==
    /\ Trained =>
          /\ {f.path : f \in By("train_hyp_config")} =
                {<<"models", "/">> \o args.channel \o <<"/">> \o args.mode
                    \o Str(num_boost_rounds) \o <<".model">>}
          /\ DOMAIN results = {"auc", "error@0.5", "best_iteration"}
          /\ results["auc"] = PyFloat(boost.best_score)
          /\ results["best_iteration"] = PyInt(boost.best_iteration)
          /\ LET fields == StrSplit(boost.attr_msg, "\t")
             IN  /\ results["error@0.5"] = PyStr(fields[Len(fields) - 1])
                 /\ SubSeq(fields[Len(fields) - 1], 1, 4) = <<"eval", "-", "error@0.5", ":">>
    /\ ~Trained => By("train_hyp_config") = {}
    /\ \A f \in By("save_results") : Trained /\ f.content = results
    /\ pc \in {"diag", "done"} => Cardinality(By("save_results")) = 1

C6_Witness ==
    /\ pc = "done"
    /\ num_boost_rounds = 300
    /\ boost.stopped
    /\ boost.rounds < 300
    /\ By("save_results") # {}

\* C7: a finished run with --diagnostics has written exactly
\* graphs/<channel><mode>ROC.pdf, graphs/<channel><mode>xgb_importances.pdf and
\* test/<channel>/yPred_<mode>_<channel>.npy in diagnostics; without
\* --diagnostics none of the three is written.
C7_DiagnosticFiles ==
    LET roc == <<"graphs", "/">> \o args.channel \o args.mode \o <<"ROC.pdf">>
        imp == <<"graphs", "/">> \o args.channel \o args.mode \o <<"xgb_importances.pdf">>
        npy == <<"test", "/">> \o args.channel \o <<"/", "yPred_">> \o args.mode
                   \o <<"_">> \o args.channel \o <<".npy">>
    IN  pc = "done" =>
            IF args.diagnostics
            THEN {f.path : f \in By("diagnostics")} = {roc, imp, npy}
            ELSE {f \in files : f.path \in {roc, imp, npy}} = {}

\* C8: load_data's split is a partition of the table's rows (no row in both
\* parts, every row in one), and a second call on the same table with the
\* same test fraction gives the same split.
C8_SplitPartition ==
    /\ (pc # "load" /\ error = "none") =>
          /\ Range(split.train) \cap Range(split.test) = {}
          /\ Range(split.train) \cup Range(split.test) = 1..table
          /\ Len(split.train) + Len(split.test) = table
    /\ pc = "loaded twice" => split2 = split

C8_Witness ==
    /\ pc = "loaded twice"
    /\ entropy # 0
    /\ Len(split.train) >= 2
    /\ Len(split.test) >= 2

\* C9: training runs no round beyond num_boost_rounds; it stops early exactly
\* when the monitored score has not improved for 256 rounds in a row; the
\* best iteration lies within the rounds run; and with num_boost_rounds <= 256
\* early stopping never triggers and every round asked for is run.
C9_EarlyStopping ==
    /\ boost.rounds > 0 => boost.rounds <= boost.N
    /\ boost.stale <= EarlyStoppingRounds
    /\ boost.stopped <=> boost.stale = EarlyStoppingRounds
    /\ (pc # "boost" /\ boost.rounds > 0 /\ boost.rounds < boost.N) => boost.stopped
    /\ boost.rounds > 0 => boost.best_iteration < boost.rounds
    /\ pc = "save" => results["best_iteration"].n <= boost.rounds
    /\ boost.N <= EarlyStoppingRounds =>
          /\ ~boost.stopped
          /\ (pc # "boost" /\ boost.N >= 0) => boost.rounds = boost.N

C9_Witness ==
    /\ pc = "save"
    /\ boost.stopped
    /\ boost.rounds < boost.N
    /\ boost.best_iteration > 0

\* the booster the loop ends with is the one XgbTrain gives for its best round
TrainLoopMatchesXgbTrain ==
    (pc = "save" /\ boost.N > 0) =>
        \E values \in RoundValues(EvalNames(EvalMetrics(hp))) :
            boost = XgbTrain(boost.N, EvalNames(EvalMetrics(hp)), boost.best_iteration, values)

\* the pipeline step in which the exception `error` was raised
StepOf(e) == IF e = "xgb.train" THEN "train_hyp_config" ELSE e

\* C10: a failure ends the run: after load_data failed training never
\* starts; after the boosting routine failed no model file and no evaluation
\* record is written and diagnostics never runs; the failed step is the last
\* step of the run and no step runs twice.
C10_FailureIsFatal ==
    /\ error = "load_data" => "train_hyp_config" \notin Range(log)
    /\ error = "xgb.train" =>
          /\ By("train_hyp_config") = {}
          /\ By("save_results") = {}
          /\ "diagnostics" \notin Range(log)
    /\ error # "none" => pc = "failed" /\ log[Len(log)] = StepOf(error)
    /\ NoRepeat(log)

C10_Witness ==
    /\ error = "xgb.train"
    /\ pc = "failed"
    /\ args.diagnostics
    /\ Len(log) = 3

====
